---- MODULE Spec2Model ----
(***************************************************************************)
(* Floor-plan analysis pipeline of the GEM-AI backend:                     *)
(*   web-app/backend/main.py                    (analyze_floorplan,        *)
(*                                               preload_sam_model)        *)
(*   web-app/backend/gem_ai/floorplan_model.py  (model cache, primary      *)
(*                                               detection strategy)       *)
(* Three specifications share the definitions below:                       *)
(*   Spec       one server process: module load, startup, then analysis    *)
(*              requests handled one after the other;                      *)
(*   SpecCache  several threads calling load_floorplan_model, interleaved  *)
(*              at the granularity of its statements;                      *)
(*   SpecProj   the pixel-to-metre projection as a pure function on        *)
(*              binary64 floating-point numbers.                           *)
(***************************************************************************)
EXTENDS Integers, Sequences, FiniteSets, TLC

VARIABLES
    \* ---- the server process (Spec) ----
    proc,                   \* "boot", "loaded" (modules imported), "serving"
    TORCH_AVAILABLE,        \* floorplan_model.py:14-24
    SAM_AVAILABLE,          \* imported from gem_ai.detector (main.py:23)
    weights_exist,          \* Path(model_path).exists(), floorplan_model.py:97
    fp_module,              \* outcome of importing gem_ai/floorplan_model.py
    floorplan_model_cache,  \* _floorplan_model_cache, floorplan_model.py:144
    sam_cache,              \* the SAM models loaded by load_sam_model
    next_id,                \* identity of the next model instance constructed
    served,                 \* requests received so far
    pc,                     \* position of the request inside analyze_floorplan
    job,                    \* the locals of analyze_floorplan
    artifacts,              \* the files written to job_dir
    response,               \* what the handler returned or raised
    hist,                   \* history of the request: calls made, stages run
    \* ---- threads calling load_floorplan_model (SpecCache) ----
    th,                     \* per thread: position and locals
    built,                  \* history: per key, instances constructed or under construction
    returned,               \* history: <<key, instance id>> returned by a call
    calls_made,             \* calls started so far
    \* ---- the projection as a pure function (SpecProj) ----
    px                      \* input rectangle, H, ppm and the values computed

(***************************************************************************)
(* Python floats: IEEE-754 binary64, round-to-nearest-even.                *)
(* A number is [s, e, m]: sign s (0 or 1), m the significand, an integer   *)
(* of Precision bits held as NLimbs digits in base Base (most significant  *)
(* first, so that no intermediate exceeds the bound of TLC's integers), e the   *)
(* exponent of its first bit; the value is                                 *)
(*     (-1)^s * m * 2^(e - Precision + 1).                                 *)
(* Zero has m = 0.  Subnormals, infinities and NaN are outside the ranges  *)
(* modelled.                                                               *)
(***************************************************************************)
Precision == 53

Base == 2^14

LimbBits == CHOOSE k \in 1..30 : 2^k = Base

NLimbs == (Precision + LimbBits - 1) \div LimbBits

MinOf(S) == CHOOSE i \in S : \A j \in S : i <= j

MaxOf(S) == CHOOSE i \in S : \A j \in S : i >= j

ZeroLimbs(n) == [i \in 1..n |-> 0]

BigStrip(P) ==
    LET nz == {i \in 1..Len(P) : P[i] # 0}
    IN  IF nz = {} THEN <<>> ELSE SubSeq(P, MinOf(nz), Len(P))

BigPad(P, n) == IF Len(P) >= n THEN P ELSE ZeroLimbs(n - Len(P)) \o P

\* A >= B
BigGeq(A, B) ==
    LET n == IF Len(A) > Len(B) THEN Len(A) ELSE Len(B)
        a == BigPad(A, n)
        b == BigPad(B, n)
        D == {i \in 1..n : a[i] # b[i]}
    IN  D = {} \/ a[MinOf(D)] > b[MinOf(D)]

BigEq(A, B) == BigGeq(A, B) /\ BigGeq(B, A)

RECURSIVE AddRec(_, _, _, _, _)
AddRec(A, B, i, c, acc) ==
    IF i = 0 THEN <<c>> \o acc
    ELSE LET t == A[i] + B[i] + c
         IN  AddRec(A, B, i - 1, t \div Base, <<t % Base>> \o acc)

\* A + B
BigAdd(A, B) ==
    LET n == IF Len(A) > Len(B) THEN Len(A) ELSE Len(B)
    IN  AddRec(BigPad(A, n), BigPad(B, n), n, 0, <<>>)

RECURSIVE SubRec(_, _, _, _, _)
SubRec(A, B, i, b, acc) ==
    IF i = 0 THEN acc
    ELSE LET t == A[i] - B[i] - b
         IN  SubRec(A, B, i - 1, IF t < 0 THEN 1 ELSE 0, <<(t + Base) % Base>> \o acc)

\* A - B, for A >= B
BigSub(A, B) ==
    LET n == IF Len(A) > Len(B) THEN Len(A) ELSE Len(B)
    IN  SubRec(BigPad(A, n), BigPad(B, n), n, 0, <<>>)

RECURSIVE MulSmallRec(_, _, _, _, _)
MulSmallRec(A, q, i, c, acc) ==
    IF i = 0 THEN <<c>> \o acc
    ELSE LET t == A[i] * q + c
         IN  MulSmallRec(A, q, i - 1, t \div Base, <<t % Base>> \o acc)

\* A * q, for a single digit q
BigMulSmall(A, q) == MulSmallRec(A, q, Len(A), 0, <<>>)

RECURSIVE MulRec(_, _, _, _)
MulRec(A, B, j, acc) ==
    IF j = 0 THEN acc
    ELSE MulRec(A, B, j - 1,
                BigAdd(acc, BigMulSmall(A, B[j]) \o ZeroLimbs(Len(B) - j)))

\* A * B
BigMul(A, B) == MulRec(A, B, Len(B), <<>>)

\* A * 2^d
BigShl(A, d) == BigMulSmall(A, 2^(d % LimbBits)) \o ZeroLimbs(d \div LimbBits)

RECURSIVE DivSmallRec(_, _, _, _, _)
DivSmallRec(A, d, i, r, acc) ==
    IF i > Len(A) THEN [q |-> acc, r |-> r]
    ELSE LET t == r * Base + A[i]
         IN  DivSmallRec(A, d, i + 1, t % d, Append(acc, t \div d))

\* quotient and remainder of A by a single digit d
BigDivSmall(A, d) == DivSmallRec(A, d, 1, 0, <<>>)

\* One digit of a long division: the largest q with q * B <= R, where
\* R < B * Base and the first digit of B is at least Base / 2, found from the
\* leading digits and corrected downwards (at most twice).
QuoDigit(R, B) ==
    LET r    == BigPad(BigStrip(R), Len(B) + 1)
        est  == (r[1] * Base + r[2]) \div B[1]
        qhat == IF est > Base - 1 THEN Base - 1 ELSE est
    IN  MaxOf({c \in (qhat - 2)..qhat : c >= 0 /\ BigGeq(r, BigMulSmall(B, c))})

RECURSIVE LongDivRec(_, _, _, _, _)
LongDivRec(N, B, i, R, acc) ==
    IF i > Len(N) THEN [q |-> acc, r |-> R]
    ELSE LET R1 == Append(R, N[i])
             q  == QuoDigit(R1, B)
         IN  LongDivRec(N, B, i + 1, BigStrip(BigSub(R1, BigMulSmall(B, q))),
                        Append(acc, q))

\* quotient and remainder of N by B, the first digit of B at least Base / 2
BigDiv(N, B) == LongDivRec(N, B, 1, <<>>, <<>>)

\* number of bits of A
BitLen(A) ==
    LET S == BigStrip(A)
    IN  IF S = <<>> THEN 0
        ELSE (Len(S) - 1) * LimbBits
             + Cardinality({k \in 0..(LimbBits - 1) : 2^k <= S[1]})

Significand(P) == BigPad(BigStrip(P), NLimbs)

Zero == [s |-> 0, e |-> 0, m |-> Significand(<<>>)]

IsZero(a) == BigStrip(a.m) = <<>>

\* Round the exact value (-1)^s * P * 2^lsbExp to the nearest float, ties to even.
RoundBig(s, P, lsbExp) ==
    LET S  == BigStrip(P)
        L  == BitLen(S)
        e0 == lsbExp + L - 1
    IN  IF L = 0 THEN Zero
        ELSE IF L <= Precision
        THEN [s |-> s, e |-> e0, m |-> Significand(BigShl(S, Precision - L))]
        ELSE LET d    == L - Precision
                 a    == d \div LimbBits
                 b    == d % LimbBits
                 n    == Len(S)
                 qr   == BigDivSmall(SubSeq(S, 1, n - a), 2^b)
                 rem  == <<qr.r>> \o SubSeq(S, n - a + 1, n)
                 half == BigShl(<<1>>, d - 1)
                 odd  == qr.q[Len(qr.q)] % 2 = 1
                 up   == IF BigEq(rem, half) THEN odd ELSE BigGeq(rem, half)
                 Q1   == IF up THEN BigAdd(qr.q, <<1>>) ELSE qr.q
             IN  IF BitLen(Q1) > Precision
                 THEN [s |-> s, e |-> e0 + 1,
                       m |-> Significand(BigShl(<<1>>, Precision - 1))]
                 ELSE [s |-> s, e |-> e0, m |-> Significand(Q1)]

\* float(n) for a Python int n (exact for the integers modelled)
FromInt(n) ==
    LET a == IF n < 0 THEN 0 - n ELSE n
    IN  RoundBig(IF n < 0 THEN 1 ELSE 0,
                 <<a \div (Base * Base), (a \div Base) % Base, a % Base>>, 0)

NegD(a) == IF IsZero(a) THEN a ELSE [a EXCEPT !.s = 1 - a.s]

\* |a| >= |b|
MagGeq(a, b) ==
    IF IsZero(b) THEN TRUE
    ELSE IF IsZero(a) THEN FALSE
    ELSE IF a.e # b.e THEN a.e > b.e
    ELSE BigGeq(a.m, b.m)

\* a < b
LtD(a, b) ==
    IF a = b THEN FALSE
    ELSE IF a.s # b.s THEN a.s = 1
    ELSE IF a.s = 0 THEN ~MagGeq(a, b)
    ELSE ~MagGeq(b, a)

MaxD(a, b) == IF LtD(a, b) THEN b ELSE a

MinD(a, b) == IF LtD(b, a) THEN b ELSE a

\* a * b
MulD(a, b) ==
    IF IsZero(a) \/ IsZero(b) THEN Zero
    ELSE RoundBig((a.s + b.s) % 2, BigMul(a.m, b.m),
                  (a.e - Precision + 1) + (b.e - Precision + 1))

\* a / b, b not zero (Python raises ZeroDivisionError before dividing by 0.0).
\* The quotient of the significands is taken to NLimbs * LimbBits fractional
\* bits, with one more bit that is 1 iff the remainder is not zero.
DivD(a, b) ==
    IF IsZero(a) THEN Zero
    ELSE LET sh == NLimbs * LimbBits - Precision
             N  == BigShl(a.m \o ZeroLimbs(NLimbs), sh)
             B  == BigStrip(BigShl(b.m, sh))
             qr == BigDiv(N, B)
             st == IF qr.r = <<>> THEN 0 ELSE 1
         IN  RoundBig((a.s + b.s) % 2, BigAdd(BigMulSmall(qr.q, 2), <<st>>),
                      a.e - b.e - (NLimbs * LimbBits + 1))

\* a + b
AddD(a, b) ==
    IF IsZero(a) THEN b
    ELSE IF IsZero(b) THEN a
    ELSE LET la == a.e - Precision + 1
             lb == b.e - Precision + 1
             lo == IF la < lb THEN la ELSE lb
             A  == BigShl(a.m, la - lo)
             B  == BigShl(b.m, lb - lo)
         IN  IF a.s = b.s THEN RoundBig(a.s, BigAdd(A, B), lo)
             ELSE IF BigGeq(A, B) THEN RoundBig(a.s, BigSub(A, B), lo)
             ELSE RoundBig(b.s, BigSub(B, A), lo)

SubD(a, b) == AddD(a, NegD(b))

(***************************************************************************)
(* Geometric projection, main.py:216-235                                   *)
(***************************************************************************)

\* main.py:218-227, one iteration: the metric rectangle of pixel rectangle r in
\* an image `height` pixels high at ppm pixels per metre (a float, not zero)
BadFlipProject(r, height, ppm) ==
    [x       |-> DivD(FromInt(r.x), ppm),
     y       |-> DivD(FromInt(height - r.y), ppm),
     width   |-> DivD(FromInt(r.w), ppm),
     height  |-> DivD(FromInt(r.h), ppm),
     area_m2 |-> MulD(DivD(FromInt(r.w), ppm), DivD(FromInt(r.h), ppm))]

Project(r, height, ppm) ==
    [x       |-> DivD(FromInt(r.x), ppm),
     y       |-> DivD(FromInt(height - r.y - r.h), ppm),
     width   |-> DivD(FromInt(r.w), ppm),
     height  |-> DivD(FromInt(r.h), ppm),
     area_m2 |-> MulD(DivD(FromInt(r.w), ppm), DivD(FromInt(r.h), ppm))]

\* main.py:234-235
RoomType(room) ==
    LET aspect == DivD(MaxD(room.width, room.height),
                       MaxD(DivD(FromInt(1), FromInt(10)),
                            MinD(room.width, room.height)))
    IN  IF LtD(FromInt(5), aspect) THEN "Corridor"
        ELSE IF LtD(FromInt(3), aspect) THEN "Circulation"
        ELSE "Room"

\* The inverse the round-trip property names: multiply by ppm and undo the
\* y-flip with the same H, in floating point, as Python evaluates
\* H - y_m * ppm - height_m * ppm.
Unproject(m, height, ppm) ==
    [x |-> MulD(m.x, ppm),
     y |-> SubD(SubD(FromInt(height), MulD(m.y, ppm)), MulD(m.height, ppm)),
     w |-> MulD(m.width, ppm),
     h |-> MulD(m.height, ppm)]

\* ---- inputs of SpecProj ----
ProjXs == {0, 100}
ProjYs == {0, 50}
ProjWs == {1, 80}
ProjHs == {7, 40}
ProjHeights == {97, 600}
\* pixels per metre: 1, 49, 100 and 37.5
ProjPpms == {FromInt(1), FromInt(49), FromInt(100), DivD(FromInt(75), FromInt(2))}

NoValue == "None"

ProjIdle == px = NoValue

InitProj ==
    /\ px \in [rect : [x : ProjXs, y : ProjYs, w : ProjWs, h : ProjHs],
               H : ProjHeights, ppm : ProjPpms,
               stage : {"input"}, metric : {NoValue}, type : {NoValue},
               back : {NoValue}]

ProjApply ==
    /\ px.stage = "input"
    /\ px' = [px EXCEPT !.stage = "projected",
                        !.metric = Project(px.rect, px.H, px.ppm)]

ProjClassify ==
    /\ px.stage = "projected"
    /\ px' = [px EXCEPT !.stage = "typed", !.type = RoomType(px.metric)]

ProjInvert ==
    /\ px.stage = "typed"
    /\ px' = [px EXCEPT !.stage = "inverted",
                        !.back = Unproject(px.metric, px.H, px.ppm)]

(***************************************************************************)
(* The segmentation model and its cache, gem_ai/floorplan_model.py         *)
(***************************************************************************)

\* floorplan_model.py:26-30
ROOM_CATEGORIES ==
    [c \in 0..10 |->
        <<"background", "outdoor", "wall", "kitchen", "living_room", "bedroom",
          "bathroom", "hallway", "storage", "garage", "other">>[c + 1]]

\* floorplan_model.py:31
NUM_CLASSES == Cardinality(DOMAIN ROOM_CATEGORIES)

\* floorplan_model.py:132, the default of min_area
DefaultMinArea == 500

\* A mask is held as what cv2.findContours and cv2.contourArea find in it: the
\* external contours of each class, [class_id, area, x, y, w, h], in the order
\* of discovery.
\* floorplan_model.py:124-129, the contours of one class
RoomsOfClass(mask, min_area, class_id) ==
    LET cs == SelectSeq(mask, LAMBDA c : c.class_id = class_id /\ c.area >= min_area)
    IN  [i \in 1..Len(cs) |->
            [x |-> cs[i].x, y |-> cs[i].y, w |-> cs[i].w, h |-> cs[i].h,
             class_name |-> ROOM_CATEGORIES[class_id]]]

\* floorplan_model.py:120-130, the loop over class_id from class_id on
RECURSIVE ExtractFrom(_, _, _)
ExtractFrom(mask, min_area, class_id) ==
    IF class_id >= NUM_CLASSES THEN <<>>
    ELSE (IF class_id \in {0, 2} THEN <<>>
          ELSE RoomsOfClass(mask, min_area, class_id))
         \o ExtractFrom(mask, min_area, class_id + 1)

\* floorplan_model.py:118-130
extract_rooms_from_mask(mask, min_area) == ExtractFrom(mask, min_area, 0)

\* ---- the images of the model and what the collaborators return on them ----
Images == {"plan", "sketch", "blank"}

\* an upload is the encoding of an image, or bytes that do not decode
Files == Images \cup {"corrupt"}

ImageHeight(image) == IF image = "sketch" THEN 97 ELSE 600

Contour(c, a, x, y, w, h) ==
    [class_id |-> c, area |-> a, x |-> x, y |-> y, w |-> w, h |-> h]

\* the mask the network computes with the trained weights loaded
TrainedMask(image) ==
    CASE image = "plan" ->
           <<Contour(2, 9000, 0, 0, 400, 600), Contour(5, 3200, 100, 50, 80, 40),
             Contour(7, 1500, 200, 100, 10, 150), Contour(5, 499, 300, 300, 25, 20),
             Contour(3, 500, 10, 400, 25, 20)>>
      [] image = "sketch" ->
           <<Contour(2, 700, 0, 0, 90, 90), Contour(0, 2000, 0, 0, 97, 97),
             Contour(3, 499, 10, 10, 25, 20)>>
      [] OTHER -> <<>>

\* the mask it computes with randomly initialised weights
RandomMask(image) ==
    CASE image = "plan" -> <<Contour(10, 700, 5, 5, 30, 30), Contour(1, 3, 0, 0, 2, 2)>>
      [] OTHER -> <<Contour(9, 12, 1, 1, 4, 4)>>

\* gem_ai.detector.detect_rooms, the hybrid detector, per image and use_sam
HybridDetect(image, use_sam) ==
    CASE image = "plan" ->
           <<[x |-> 90, y |-> 45, w |-> 100, h |-> 50, class_name |-> "other"]>>
      [] image = "sketch" /\ use_sam ->
           <<[x |-> 5, y |-> 5, w |-> 60, h |-> 10, class_name |-> "other"],
             [x |-> 5, y |-> 20, w |-> 30, h |-> 30, class_name |-> "other"]>>
      [] image = "sketch" /\ ~use_sam ->
           <<[x |-> 4, y |-> 4, w |-> 62, h |-> 50, class_name |-> "other"]>>
      [] OTHER -> <<>>

\* gem_ai.scale.detect_scale
ScaleOf(image) ==
    IF image = "sketch"
    THEN [pixels_per_metre |-> FromInt(49), scale_text |-> "1:50", confidence |-> "low"]
    ELSE [pixels_per_metre |-> FromInt(100), scale_text |-> "1:100", confidence |-> "high"]

\* the pixels_per_metre form field, Optional[float] held as a sequence of at
\* most one float: absent, 0.0 or 50.0
PpmOverrides == {<<>>, <<Zero>>, <<FromInt(50)>>}

\* floorplan_model.py:89-106: the instance constructed; without a weight file
\* the network keeps its random initialisation (lines 97-101)
NewModel(id, model_path, has_weights) ==
    [id |-> id, model_path |-> model_path,
     weights |-> IF has_weights THEN "trained" ELSE "random"]

\* floorplan_model.py:108-116
Predict(model, image) ==
    IF model.weights = "trained" THEN TrainedMask(image) ELSE RandomMask(image)

\* floorplan_model.py:148
CacheKey(model_path) == IF model_path = NoValue THEN "default" ELSE model_path

\* floorplan_model.py:149, the test
CacheMiss(cache, key) == key \notin DOMAIN cache

\* floorplan_model.py:150, the assignment
CacheStore(cache, key, inst) ==
    [k \in DOMAIN cache \cup {key} |-> IF k = key THEN inst ELSE cache[k]]

EmptyCache == [k \in {} |-> NoValue]

\* floorplan_model.py:146-151 run without interruption: [raised, model, cache,
\* constructed]; ctor_ok is whether FloorPlanSegmentationModel(...) returns
load_floorplan_model(model_path, ctor_ok) ==
    LET key == CacheKey(model_path)
    IN  IF CacheMiss(floorplan_model_cache, key)
        THEN IF ctor_ok /\ TORCH_AVAILABLE
             THEN LET m == NewModel(next_id, model_path, weights_exist)
                  IN  [raised |-> FALSE, model |-> m, constructed |-> TRUE,
                       cache |-> CacheStore(floorplan_model_cache, key, m)]
             ELSE [raised |-> TRUE, model |-> NoValue, constructed |-> FALSE,
                   cache |-> floorplan_model_cache]
        ELSE [raised |-> FALSE, model |-> floorplan_model_cache[key],
              constructed |-> FALSE, cache |-> floorplan_model_cache]

\* floorplan_model.py:132-142: [rooms, raised, constructed, cache]
detect_rooms_floorplan_model(image, ctor_ok, predict_ok) ==
    IF ~TORCH_AVAILABLE
    THEN [rooms |-> <<>>, raised |-> FALSE, constructed |-> FALSE,
          cache |-> floorplan_model_cache]
    ELSE LET ld == load_floorplan_model(NoValue, ctor_ok)
         IN  IF ld.raised \/ ~predict_ok
             THEN [rooms |-> <<>>, raised |-> FALSE,
                   constructed |-> ld.constructed, cache |-> ld.cache]
             ELSE [rooms |-> extract_rooms_from_mask(Predict(ld.model, image),
                                                     DefaultMinArea),
                   raised |-> FALSE, constructed |-> ld.constructed,
                   cache |-> ld.cache]

\* gem_ai.detector.detect_rooms_advanced(method="floorplan"): the primary
\* strategy; a capability that is not there counts as an empty room list
detect_rooms_advanced(image, ctor_ok, predict_ok) ==
    IF fp_module # "loaded"
    THEN [rooms |-> <<>>, raised |-> FALSE, constructed |-> FALSE,
          cache |-> floorplan_model_cache]
    ELSE detect_rooms_floorplan_model(image, ctor_ok, predict_ok)

(***************************************************************************)
(* The server process, main.py                                             *)
(***************************************************************************)
MaxRequests == 2

pvars == <<proc, TORCH_AVAILABLE, SAM_AVAILABLE, weights_exist, fp_module,
           floorplan_model_cache, sam_cache, next_id, served, pc, job,
           artifacts, response, hist>>

cvars == <<th, built, returned, calls_made>>

vars == <<pvars, cvars, px>>

NoJob ==
    [file |-> NoValue, pixels_per_metre |-> <<>>, use_sam |-> NoValue,
     image |-> NoValue, height |-> NoValue, ppm |-> NoValue,
     scale_info |-> NoValue, rooms_px |-> NoValue, rooms_m |-> NoValue,
     total_area |-> NoValue, spaces |-> NoValue]

NoHist ==
    [calls |-> <<>>, stages |-> <<>>, primary |-> <<>>, hybrid |-> <<>>,
     failed_at |-> NoValue, raised |-> <<>>, constructed |-> FALSE]

\* main.py:144 and 146, the defaults of floor_height and building_name
FloorHeight == FromInt(3)

BuildingName == "Building"

\* no response yet
NoResponse == [status_code |-> 0, detail |-> ""]

HTTPException(code, detail) ==
    [type |-> "HTTPException", status_code |-> code, detail |-> detail]

Exception(type, detail) == [type |-> type, status_code |-> 0, detail |-> detail]

\* main.py:286-289: what leaves the handler when exc is raised inside the try
RelabelHandler(exc) == [status_code |-> 500, detail |-> exc.detail]

Handler(exc) ==
    IF exc.type = "HTTPException"
    THEN [status_code |-> exc.status_code, detail |-> exc.detail]
    ELSE [status_code |-> 500, detail |-> exc.detail]

\* `not rooms_px` mistaken for "fewer than two rooms"
NotRoomsFewerThanTwo(rooms) == Len(rooms) <= 1

\* Python's `not rooms_px`, main.py:204 and 213
NotRooms(rooms) == rooms = <<>>

\* the request leaves analyze_floorplan by exception exc raised in `stage`
Abort(stage, exc) ==
    /\ pc' = "done"
    /\ response' = Handler(exc)
    /\ hist' = [hist EXCEPT !.stages = Append(@, stage), !.failed_at = stage,
                            !.raised = <<exc>>]

Enter(stage) == hist' = [hist EXCEPT !.stages = Append(@, stage)]

CallersIdle ==
    /\ th = NoValue
    /\ built = NoValue
    /\ returned = NoValue
    /\ calls_made = 0

Init ==
    /\ proc = "boot"
    /\ TORCH_AVAILABLE \in BOOLEAN
    /\ SAM_AVAILABLE \in BOOLEAN
    /\ weights_exist \in BOOLEAN
    /\ fp_module = "unloaded"
    /\ floorplan_model_cache = EmptyCache
    /\ sam_cache = {}
    /\ next_id = 1
    /\ served = 0
    /\ pc = "idle"
    /\ job = NoJob
    /\ artifacts = {}
    /\ response = NoResponse
    /\ hist = NoHist
    /\ CallersIdle
    /\ ProjIdle

\* Importing gem_ai/floorplan_model.py: with torch missing the import at lines
\* 17-24 is absorbed, and `class ConvBlock(nn.Module)` at line 36 then raises
\* NameError, nn being unbound.
LoadModules ==
    /\ proc = "boot"
    /\ proc' = "loaded"
    /\ fp_module' = IF TORCH_AVAILABLE THEN "loaded" ELSE "NameError"
    /\ UNCHANGED <<TORCH_AVAILABLE, SAM_AVAILABLE, weights_exist,
                   floorplan_model_cache, sam_cache, next_id, served, pc, job,
                   artifacts, response, hist, cvars, px>>

\* main.py:54-66; load_sam_model is gem_ai.detector's, and may raise
preload_sam_model ==
    /\ proc = "loaded"
    /\ proc' = "serving"
    /\ IF SAM_AVAILABLE
       THEN \E ok \in BOOLEAN :
               sam_cache' = IF ok THEN sam_cache \cup {"vit_b"} ELSE sam_cache
       ELSE sam_cache' = sam_cache
    /\ UNCHANGED <<TORCH_AVAILABLE, SAM_AVAILABLE, weights_exist, fp_module,
                   floorplan_model_cache, next_id, served, pc, job, artifacts,
                   response, hist, cvars, px>>

penv == <<proc, TORCH_AVAILABLE, SAM_AVAILABLE, weights_exist, fp_module,
          sam_cache, served, cvars, px>>

\* main.py:140-158: a request arrives; job_dir is created empty
ReceiveRequest ==
    /\ proc = "serving"
    /\ pc \in {"idle", "done"}
    /\ served < MaxRequests
    /\ served' = served + 1
    /\ \E f \in Files, o \in PpmOverrides, u \in BOOLEAN :
          job' = [NoJob EXCEPT !.file = f, !.pixels_per_metre = o, !.use_sam = u]
    /\ pc' = "decode"
    /\ artifacts' = {}
    /\ response' = NoResponse
    /\ hist' = NoHist
    /\ UNCHANGED <<proc, TORCH_AVAILABLE, SAM_AVAILABLE, weights_exist, fp_module,
                   sam_cache, floorplan_model_cache, next_id, cvars, px>>

\* main.py:161-175
DecodeStage ==
    /\ pc = "decode"
    /\ IF job.file \in Images
       THEN /\ job' = [job EXCEPT !.image = job.file, !.height = ImageHeight(job.file)]
            /\ artifacts' = artifacts \cup {"input.png"}
            /\ pc' = "scale"
            /\ Enter("decode")
            /\ UNCHANGED response
       ELSE /\ Abort("decode", HTTPException(400, "Invalid image file"))
            /\ UNCHANGED <<job, artifacts>>
    /\ UNCHANGED <<penv, floorplan_model_cache, next_id>>

\* main.py:177-192, with a failure of detect_scale swallowed and a default
\* scale used instead
ScaleStageSwallow ==
    /\ pc = "scale"
    /\ IF job.pixels_per_metre = <<>>
       THEN \E ok \in BOOLEAN :
               /\ job' = [job EXCEPT
                            !.ppm = ScaleOf(job.image).pixels_per_metre,
                            !.scale_info =
                               [detected |-> ScaleOf(job.image).scale_text,
                                pixels_per_metre |-> ScaleOf(job.image).pixels_per_metre,
                                confidence |-> ScaleOf(job.image).confidence]]
               /\ hist' = [hist EXCEPT !.stages = Append(@, "scale"),
                                       !.failed_at = IF ok THEN @ ELSE "scale"]
       ELSE /\ job' = [job EXCEPT
                         !.ppm = job.pixels_per_metre[1],
                         !.scale_info =
                            [detected |-> "user_provided",
                             pixels_per_metre |-> job.pixels_per_metre[1],
                             confidence |-> "user"]]
            /\ Enter("scale")
    /\ pc' = "primary"
    /\ UNCHANGED <<penv, artifacts, response, floorplan_model_cache, next_id>>

\* main.py:177-192
ScaleStage ==
    /\ pc = "scale"
    /\ IF job.pixels_per_metre = <<>>
       THEN \E ok \in BOOLEAN :
               IF ok
               THEN /\ job' = [job EXCEPT
                                 !.ppm = ScaleOf(job.image).pixels_per_metre,
                                 !.scale_info =
                                    [detected |-> ScaleOf(job.image).scale_text,
                                     pixels_per_metre |-> ScaleOf(job.image).pixels_per_metre,
                                     confidence |-> ScaleOf(job.image).confidence]]
                    /\ pc' = "primary"
                    /\ Enter("scale")
                    /\ UNCHANGED response
               ELSE /\ Abort("scale", Exception("RuntimeError", "detect_scale failed"))
                    /\ UNCHANGED job
       ELSE /\ job' = [job EXCEPT
                         !.ppm = job.pixels_per_metre[1],
                         !.scale_info =
                            [detected |-> "user_provided",
                             pixels_per_metre |-> job.pixels_per_metre[1],
                             confidence |-> "user"]]
            /\ pc' = "primary"
            /\ Enter("scale")
            /\ UNCHANGED response
    /\ UNCHANGED <<penv, artifacts, floorplan_model_cache, next_id>>

\* main.py:196-201
PrimaryStage ==
    /\ pc = "primary"
    /\ \E ctor_ok \in BOOLEAN, predict_ok \in BOOLEAN :
          LET out == detect_rooms_advanced(job.image, ctor_ok, predict_ok)
          IN  /\ job' = [job EXCEPT !.rooms_px = out.rooms]
              /\ floorplan_model_cache' = out.cache
              /\ next_id' = IF out.constructed THEN next_id + 1 ELSE next_id
              /\ hist' = [hist EXCEPT !.stages = Append(@, "primary"),
                                      !.calls = Append(@, "primary"),
                                      !.primary = <<out.rooms>>,
                                      !.constructed = out.constructed]
    /\ pc' = "fallback"
    /\ UNCHANGED <<penv, artifacts, response>>

\* main.py:204-211, with the hybrid detector called whatever the primary found
FallbackStageAlways ==
    /\ pc = "fallback"
    /\ LET rooms == HybridDetect(job.image, job.use_sam /\ SAM_AVAILABLE)
       IN  /\ job' = [job EXCEPT !.rooms_px = IF NotRooms(job.rooms_px) THEN rooms ELSE @]
           /\ hist' = [hist EXCEPT !.stages = Append(@, "fallback"),
                                   !.calls = Append(@, "fallback"),
                                   !.hybrid = <<rooms>>]
    /\ pc' = "check"
    /\ UNCHANGED <<penv, artifacts, response, floorplan_model_cache, next_id>>

\* main.py:204-211
FallbackStage ==
    /\ pc = "fallback"
    /\ IF NotRooms(job.rooms_px)
       THEN \E ok \in BOOLEAN :
               IF ok
               THEN LET rooms == HybridDetect(job.image, job.use_sam /\ SAM_AVAILABLE)
                    IN  /\ job' = [job EXCEPT !.rooms_px = rooms]
                        /\ hist' = [hist EXCEPT !.stages = Append(@, "fallback"),
                                                !.calls = Append(@, "fallback"),
                                                !.hybrid = <<rooms>>]
                        /\ pc' = "check"
                        /\ UNCHANGED response
               ELSE /\ pc' = "done"
                    /\ response' = Handler(Exception("RuntimeError", "detect_rooms failed"))
                    /\ hist' = [hist EXCEPT
                                  !.stages = Append(@, "fallback"),
                                  !.calls = Append(@, "fallback"),
                                  !.failed_at = "fallback",
                                  !.raised = <<Exception("RuntimeError", "detect_rooms failed")>>]
                    /\ UNCHANGED job
       ELSE /\ pc' = "check"
            /\ UNCHANGED <<job, hist, response>>
    /\ UNCHANGED <<penv, artifacts, floorplan_model_cache, next_id>>

\* main.py:213-214
CheckStage ==
    /\ pc = "check"
    /\ IF NotRooms(job.rooms_px)
       THEN /\ pc' = "done"
            /\ response' = Handler(HTTPException(422, "No rooms detected in image"))
            /\ hist' = [hist EXCEPT !.raised =
                           <<HTTPException(422, "No rooms detected in image")>>]
       ELSE /\ pc' = "project"
            /\ UNCHANGED <<response, hist>>
    /\ UNCHANGED <<penv, job, artifacts, floorplan_model_cache, next_id>>

RECURSIVE SumAreas(_, _)
\* main.py:229: sum() of the first n areas, starting from the int 0
SumAreas(rooms, n) ==
    IF n = 0 THEN FromInt(0) ELSE AddD(SumAreas(rooms, n - 1), rooms[n].area_m2)

\* main.py:216-229; dividing by a ppm of 0.0 raises ZeroDivisionError
ProjectStage ==
    /\ pc = "project"
    /\ IF IsZero(job.ppm)
       THEN /\ Abort("project", Exception("ZeroDivisionError", "float division by zero"))
            /\ UNCHANGED job
       ELSE LET rooms_m == [i \in 1..Len(job.rooms_px) |->
                               Project(job.rooms_px[i], job.height, job.ppm)]
            IN  /\ job' = [job EXCEPT !.rooms_m = rooms_m,
                                      !.total_area = SumAreas(rooms_m, Len(rooms_m))]
                /\ pc' = "gbxml"
                /\ Enter("project")
                /\ UNCHANGED response
    /\ UNCHANGED <<penv, artifacts, floorplan_model_cache, next_id>>

\* main.py:231-246; GbXMLWriter is gem_ai.exporter's, and save may raise
ExportGbxmlStage ==
    /\ pc = "gbxml"
    /\ \E ok \in BOOLEAN :
          IF ok
          THEN /\ job' = [job EXCEPT !.spaces =
                            [i \in 1..Len(job.rooms_m) |->
                                [space_id |-> i,
                                 name |-> <<RoomType(job.rooms_m[i]), i>>,
                                 x |-> job.rooms_m[i].x, y |-> job.rooms_m[i].y,
                                 z |-> Zero,
                                 width |-> job.rooms_m[i].width,
                                 depth |-> job.rooms_m[i].height,
                                 height |-> FloorHeight]]]
               /\ artifacts' = artifacts \cup {"floorplan.xml"}
               /\ pc' = "obj"
               /\ Enter("gbxml")
               /\ UNCHANGED response
          ELSE /\ Abort("gbxml", Exception("OSError", "cannot write floorplan.xml"))
               /\ UNCHANGED <<job, artifacts>>
    /\ UNCHANGED <<penv, floorplan_model_cache, next_id>>

\* main.py:249; export_obj is gem_ai.exporter's, and may raise
ExportObjStage ==
    /\ pc = "obj"
    /\ \E ok \in BOOLEAN :
          IF ok
          THEN /\ artifacts' = artifacts \cup {"floorplan.obj"}
               /\ pc' = "preview"
               /\ Enter("obj")
               /\ UNCHANGED response
          ELSE /\ Abort("obj", Exception("OSError", "cannot write floorplan.obj"))
               /\ UNCHANGED artifacts
    /\ UNCHANGED <<penv, job, floorplan_model_cache, next_id>>

\* main.py:251-258
PreviewStage ==
    /\ pc = "preview"
    /\ artifacts' = artifacts \cup {"preview.png"}
    /\ pc' = "save"
    /\ Enter("preview")
    /\ UNCHANGED <<penv, job, response, floorplan_model_cache, next_id>>

\* main.py:263-280; job_id and processing_time_sec are left out, and
\* total_area_m2 is held before its rounding to one decimal
Result ==
    [status |-> "success",
     method |-> IF job.use_sam /\ SAM_AVAILABLE THEN "SAM" ELSE "Classical CV",
     scale |-> job.scale_info,
     image_height |-> job.height,
     rooms_detected |-> Len(job.rooms_m),
     total_area_m2 |-> job.total_area,
     floor_height_m |-> FloorHeight,
     rooms |-> job.rooms_m,
     files |-> {"preview.png", "floorplan.xml", "floorplan.obj", "input.png"}]

\* main.py:260-284
SaveResultStage ==
    /\ pc = "save"
    /\ \E ok \in BOOLEAN :
          IF ok
          THEN /\ artifacts' = artifacts \cup {"result.json"}
               /\ response' = [status_code |-> 200, body |-> Result]
               /\ pc' = "done"
               /\ Enter("save")
          ELSE /\ Abort("save", Exception("OSError", "cannot write result.json"))
               /\ UNCHANGED artifacts
    /\ UNCHANGED <<penv, job, floorplan_model_cache, next_id>>

Next ==
    \/ LoadModules
    \/ preload_sam_model
    \/ ReceiveRequest
    \/ DecodeStage
    \/ ScaleStage
    \/ PrimaryStage
    \/ FallbackStage
    \/ CheckStage
    \/ ProjectStage
    \/ ExportGbxmlStage
    \/ ExportObjStage
    \/ PreviewStage
    \/ SaveResultStage

Spec == Init /\ [][Next]_vars

(***************************************************************************)
(* Threads calling load_floorplan_model, floorplan_model.py:146-151.       *)
(* CPython may switch threads between any two of the function's steps:     *)
(* the membership test, the constructor call, the store into the dict and  *)
(* the final lookup.                                                       *)
(***************************************************************************)
NumCallers == 2

MaxCalls == 3

Callers == 1..NumCallers

ModelPaths == {NoValue, "alt.pt"}

CacheKeys == {CacheKey(p) : p \in ModelPaths}

IdleThread == [pc |-> "idle", model_path |-> NoValue, key |-> NoValue, inst |-> NoValue]

InitCache ==
    /\ proc = "serving"
    /\ TORCH_AVAILABLE = TRUE
    /\ SAM_AVAILABLE = FALSE
    /\ weights_exist \in BOOLEAN
    /\ fp_module = "loaded"
    /\ floorplan_model_cache = EmptyCache
    /\ sam_cache = {}
    /\ next_id = 1
    /\ served = 0
    /\ pc = "idle"
    /\ job = NoJob
    /\ artifacts = {}
    /\ response = NoResponse
    /\ hist = NoHist
    /\ th = [c \in Callers |-> IdleThread]
    /\ built = [k \in CacheKeys |-> {}]
    /\ returned = {}
    /\ calls_made = 0
    /\ ProjIdle

cenv == <<proc, TORCH_AVAILABLE, SAM_AVAILABLE, weights_exist, fp_module,
          sam_cache, served, pc, job, artifacts, response, hist, px>>

\* floorplan_model.py:146-148: the call and the key
LfmEnter(c) ==
    /\ th[c].pc = "idle"
    /\ calls_made < MaxCalls
    /\ calls_made' = calls_made + 1
    /\ \E p \in ModelPaths :
          th' = [th EXCEPT ![c] = [pc |-> "check", model_path |-> p,
                                   key |-> CacheKey(p), inst |-> NoValue]]
    /\ UNCHANGED <<cenv, floorplan_model_cache, next_id, built, returned>>

\* floorplan_model.py:149
LfmCheck(c) ==
    /\ th[c].pc = "check"
    /\ th' = [th EXCEPT ![c].pc =
                 IF CacheMiss(floorplan_model_cache, th[c].key)
                 THEN "construct" ELSE "return"]
    /\ UNCHANGED <<cenv, floorplan_model_cache, next_id, built, returned, calls_made>>

\* floorplan_model.py:150, the right-hand side; the constructor may raise
\* (torch.load on a damaged weight file), and the call then ends
LfmConstruct(c) ==
    /\ th[c].pc = "construct"
    /\ \E ok \in BOOLEAN :
          IF ok
          THEN /\ th' = [th EXCEPT ![c].pc = "store",
                                   ![c].inst = NewModel(next_id, th[c].model_path,
                                                        weights_exist)]
               /\ next_id' = next_id + 1
               /\ built' = [built EXCEPT ![th[c].key] = @ \cup {next_id}]
          ELSE /\ th' = [th EXCEPT ![c] = IdleThread]
               /\ UNCHANGED <<next_id, built>>
    /\ UNCHANGED <<cenv, floorplan_model_cache, returned, calls_made>>

\* floorplan_model.py:150, the assignment
LfmStore(c) ==
    /\ th[c].pc = "store"
    /\ floorplan_model_cache' = CacheStore(floorplan_model_cache, th[c].key, th[c].inst)
    /\ th' = [th EXCEPT ![c].pc = "return"]
    /\ UNCHANGED <<cenv, next_id, built, returned, calls_made>>

\* floorplan_model.py:151
LfmReturn(c) ==
    /\ th[c].pc = "return"
    /\ returned' = returned \cup {<<th[c].key, floorplan_model_cache[th[c].key].id>>}
    /\ th' = [th EXCEPT ![c] = IdleThread]
    /\ UNCHANGED <<cenv, floorplan_model_cache, next_id, built, calls_made>>

NextCache ==
    \E c \in Callers :
        \/ LfmEnter(c)
        \/ LfmCheck(c)
        \/ LfmConstruct(c)
        \/ LfmStore(c)
        \/ LfmReturn(c)

SpecCache == InitCache /\ [][NextCache]_vars

(***************************************************************************)
(* The projection as a pure function                                       *)
(***************************************************************************)
InitProjAll ==
    /\ InitProj
    /\ proc = "boot"
    /\ TORCH_AVAILABLE = TRUE
    /\ SAM_AVAILABLE = FALSE
    /\ weights_exist = TRUE
    /\ fp_module = "unloaded"
    /\ floorplan_model_cache = EmptyCache
    /\ sam_cache = {}
    /\ next_id = 1
    /\ served = 0
    /\ pc = "idle"
    /\ job = NoJob
    /\ artifacts = {}
    /\ response = NoResponse
    /\ hist = NoHist
    /\ CallersIdle

NextProj ==
    \/ ProjApply /\ UNCHANGED <<pvars, cvars>>
    \/ ProjClassify /\ UNCHANGED <<pvars, cvars>>
    \/ ProjInvert /\ UNCHANGED <<pvars, cvars>>

SpecProj == InitProjAll /\ [][NextProj]_vars

(***************************************************************************)
(* Properties                                                              *)
(***************************************************************************)
Empty == << <<>> >>

\* the request is past the decision of main.py:204
PastFallback ==
    \/ pc \in {"check", "project", "gbxml", "obj", "preview", "save"}
    \/ pc = "done" /\ hist.calls # <<>>

GeometryArtifacts == {"floorplan.xml", "floorplan.obj", "preview.png", "result.json"}

Member(x, seq) == \E i \in 1..Len(seq) : seq[i] = x

\* C1: all calls of load_floorplan_model for one key that return a model
\* return the same instance, whatever the interleaving of the calls.
C1_SameInstancePerKey ==
    \A r1 \in returned, r2 \in returned : r1[1] = r2[1] => r1[2] = r2[2]

\* C2: construction is single-flight: for each key at most one model instance
\* is ever under construction or constructed.
C2_SingleFlight == \A k \in CacheKeys : Cardinality(built[k]) <= 1

\* C3: no failure of the primary strategy reaches its caller: not at module
\* load when the tensor runtime is absent, and not from a call, which always
\* returns a room list.
C3_PrimaryNeverPropagates ==
    /\ fp_module # "NameError"
    /\ Member("primary", hist.stages) => Len(hist.primary) = 1

\* C4: within a request the primary strategy is called first and once, the
\* hybrid detector at most once and after it, and the hybrid detector is
\* called if and only if the primary returned an empty list.
C4_StrictPriority ==
    /\ hist.calls \in {<<>>, <<"primary">>, <<"primary", "fallback">>}
    /\ Member("fallback", hist.calls) => hist.primary = Empty
    /\ PastFallback => (hist.primary = Empty <=> Member("fallback", hist.calls))

C4_Witness ==
    /\ pc = "done"
    /\ response.status_code = 200
    /\ hist.calls = <<"primary", "fallback">>

\* C5: once detection is over, the pixel-space room list is exactly what the
\* hybrid detector returned for the request's image and flags if the primary
\* result was empty, and the primary result otherwise.
C5_FallbackEquivalence ==
    (PastFallback /\ hist.failed_at # "fallback") =>
        IF hist.primary = Empty
        THEN /\ hist.hybrid = <<HybridDetect(job.image, job.use_sam /\ SAM_AVAILABLE)>>
             /\ job.rooms_px = hist.hybrid[1]
        ELSE /\ hist.hybrid = <<>>
             /\ job.rooms_px = hist.primary[1]

C5_Witness ==
    /\ pc = "project"
    /\ hist.primary = Empty
    /\ Len(job.rooms_px) = 2

\* C6: when both strategies returned an empty list the request ends with the
\* 422 "No rooms detected in image" error, not relabelled, and no projection,
\* export or result is produced.
C6_BothEmptyIs422 ==
    (hist.primary = Empty /\ hist.hybrid = Empty) =>
        /\ pc \in {"check", "done"}
        /\ pc = "done" =>
              response = [status_code |-> 422, detail |-> "No rooms detected in image"]
        /\ artifacts \cap GeometryArtifacts = {}
        /\ ~Member("project", hist.stages)

C6_Witness ==
    /\ pc = "done"
    /\ hist.primary = Empty
    /\ hist.hybrid = Empty
    /\ response.status_code = 422

\* C7: a failure of decode, scale calibration, fallback detection, projection
\* or export ends the request with an error at that stage: no later stage
\* runs and no success record is returned or persisted; a file that does not
\* decode is refused before scale calibration and detection; a zero scale
\* never gets past projection.
C7_FailuresPropagate ==
    /\ hist.failed_at # NoValue =>
          /\ pc = "done"
          /\ response.status_code \in {400, 500}
          /\ hist.stages[Len(hist.stages)] = hist.failed_at
          /\ "result.json" \notin artifacts
    /\ (job.file = "corrupt" /\ pc # "decode") =>
          /\ pc = "done"
          /\ response = [status_code |-> 400, detail |-> "Invalid image file"]
          /\ hist.stages = <<"decode">>
          /\ hist.calls = <<>>
    /\ (job.pixels_per_metre = <<Zero>> /\ pc \in {"gbxml", "obj", "preview", "save"})
          => FALSE
    /\ response.status_code = 200 => hist.failed_at = NoValue

C7_Witness ==
    /\ pc = "done"
    /\ hist.failed_at = "project"
    /\ response = [status_code |-> 500, detail |-> "float division by zero"]
    /\ artifacts = {"input.png"}

\* C8: in the result handed to the caller every room still carries the
\* class_name the segmentation gave it, beside the derived type.
C8_ClassNameAvailable ==
    response.status_code = 200 =>
        \A i \in 1..Len(response.body.rooms) :
            /\ "class_name" \in DOMAIN response.body.rooms[i]
            /\ response.body.rooms[i].class_name = job.rooms_px[i].class_name

\* ---- C9 ----
AbsD(a) == [a EXCEPT !.s = 0]

\* 1e-9
Tolerance == DivD(FromInt(1), FromInt(1000000000))

Close(a, n) == LtD(AbsD(SubD(a, FromInt(n))), Tolerance)

Scenario3 ==
    /\ px.rect = [x |-> 100, y |-> 50, w |-> 80, h |-> 40]
    /\ px.H = 600
    /\ px.ppm = FromInt(100)

\* the floats written 1.0, 5.1, 0.8 and 0.4
Scenario3Metric ==
    /\ px.metric.x = FromInt(1)
    /\ px.metric.y = DivD(FromInt(51), FromInt(10))
    /\ px.metric.width = DivD(FromInt(8), FromInt(10))
    /\ px.metric.height = DivD(FromInt(4), FromInt(10))

\* C9 as stated: projecting and inverting reconstructs (x, y, w, h) exactly,
\* and scenario 3 gives x = 1.0, y = 5.1, width = 0.8, height = 0.4.
C9_ExactRoundTrip ==
    px.stage = "inverted" =>
        /\ px.back.x = FromInt(px.rect.x)
        /\ px.back.y = FromInt(px.rect.y)
        /\ px.back.w = FromInt(px.rect.w)
        /\ px.back.h = FromInt(px.rect.h)
        /\ Scenario3 => Scenario3Metric

\* C9 amended: projecting and inverting reconstructs (x, y, w, h) within
\* floating-point tolerance (each value within 1e-9 of the original), and
\* scenario 3 gives x = 1.0, y = 5.1, width = 0.8, height = 0.4.
C9_RoundTripWithinTolerance ==
    px.stage = "inverted" =>
        /\ Close(px.back.x, px.rect.x)
        /\ Close(px.back.y, px.rect.y)
        /\ Close(px.back.w, px.rect.w)
        /\ Close(px.back.h, px.rect.h)
        /\ Scenario3 => Scenario3Metric

C9_Witness ==
    /\ px.stage = "inverted"
    /\ Scenario3
    /\ Scenario3Metric
    /\ px.back.y # FromInt(50)

\* C10: the startup preload forces the first construction of the model, so
\* that no request ever constructs it.
C10_NoRequestConstructs == ~hist.constructed

====
